---- MODULE Spec2Model ----
(***************************************************************************)
(* Face authentication demo: the identity store (database.py), the         *)
(* embedding extractor wrapper (face_analyzer.py), the registration flow   *)
(* (register_face.py) and the recognition flow (main_auth.py).             *)
(*                                                                         *)
(* An embedding is an integer vector; cosine distance depends only on the  *)
(* direction of its arguments and is kept exact as the pair (dot product,  *)
(* product of the squared norms), so that comparisons of distances are     *)
(* integer comparisons.                                                    *)
(***************************************************************************)
EXTENDS Integers, Sequences, FiniteSets, TLC

(***************************************************************************)
(* Bounds of the model.                                                    *)
(***************************************************************************)
\* rows the table may hold before further inserts are left out of the model
MaxRecords == 2
\* name prompts of one registration run
MaxPrompts == 2
\* last tick of the wall clock of one recognition run
MaxTime == 4
\* statements counted in one transaction; MaxStmts stands for that many or more
MaxStmts == 2

(***************************************************************************)
(* Values.                                                                 *)
(***************************************************************************)
\* Python's None where an embedding is expected
NoEmbedding == <<>>
\* Python's None where a name is expected (no string over Alphabet)
NoName == <<"None">>
\* Python's None where a frame is expected
NoFrame == [none |-> TRUE]

Embeddings == {<<1, 1, 0>>, <<1, 0, 1>>, <<2, 1, 0>>, <<-1, 0, 0>>}

\* names are sequences of characters; " " is the whitespace strip() removes
StoredNames == {<<"a">>, <<"b">>}

\* what the user may type at the name prompt
TypedNames == {<<>>, <<" ", " ">>, <<"a">>, <<" ", "b", " ">>}

\* a face as FaceAnalysis.get returns it: det_score in percent, and the
\* embedding (NoEmbedding when the face carries none)
Face(det_score, embedding) == [det_score |-> det_score, embedding |-> embedding]

\* the frames the camera may deliver
Frames ==
    { [faces |-> <<>>],
      [faces |-> <<Face(90, <<2, 1, 0>>)>>],
      [faces |-> <<Face(60, <<1, 1, 0>>), Face(80, <<1, 0, 1>>)>>],
      [faces |-> <<Face(70, <<-1, 0, 0>>), Face(70, <<1, 1, 0>>)>>],
      [faces |-> <<Face(75, NoEmbedding)>>] }

\* cv2.waitKey(1) & 0xFF: 'q', 'c', or anything else
Keys == {"q", "c", "other"}

\* the recognition loop tells 'q' from anything else
AuthKeys == {"q", "other"}

(***************************************************************************)
(* Cosine distance, pgvector's <=> operator: 1 - (a.b)/(|a||b|).           *)
(* [dot, nn] stands for 1 - dot/sqrt(nn).                                  *)
(***************************************************************************)
Dot(a, b) == a[1] * b[1] + a[2] * b[2] + a[3] * b[3]

CosineDistance(a, b) ==
    [kind |-> "num", dot |-> Dot(a, b), nn |-> Dot(a, a) * Dot(b, b)]

DistNone == [kind |-> "None", dot |-> 0, nn |-> 0]
DistInf == [kind |-> "inf", dot |-> 0, nn |-> 0]

\* d1 < d2 for two numeric distances: dot1/sqrt(nn1) > dot2/sqrt(nn2)
DistLT(d1, d2) ==
    IF d1.dot >= 0 /\ d2.dot < 0 THEN TRUE
    ELSE IF d1.dot < 0 /\ d2.dot >= 0 THEN FALSE
    ELSE IF d1.dot >= 0
         THEN d1.dot * d1.dot * d2.nn > d2.dot * d2.dot * d1.nn
         ELSE d1.dot * d1.dot * d2.nn < d2.dot * d2.dot * d1.nn

DistEq(d1, d2) == ~DistLT(d1, d2) /\ ~DistLT(d2, d1)

\* the distance 0.0: dot/sqrt(nn) = 1
DistZero == [kind |-> "num", dot |-> 1, nn |-> 1]

\* DISTANCE_THRESHOLD = 0.5, that is 1 - 1/sqrt(4)
DISTANCE_THRESHOLD == [kind |-> "num", dot |-> 1, nn |-> 4]

VARIABLES
    store,      \* rows of face_embeddings in id order: [name, embedding]
    added,      \* the (name, embedding) pairs add_face returned True for
    prog,       \* the program that runs: "none", "database", "register", "auth"
    pc,         \* its position
    conn,       \* its connection: "none", "open", "closed"
    tx,         \* transaction status of conn: "idle", "intrans", "inerror"
    stmts,      \* statements executed on conn since the last commit or rollback
    peak,       \* the most stmts was at any point of the last step
    closes,     \* conn.close() calls of the current run
    call,       \* the database.py call the last step made, with its return value
    op,         \* the step that was taken last
    frame,                  \* frame read by the current loop iteration
    face_results,           \* analyze_frame(frame) of the last analysis
    key,                    \* key read by the last loop iteration
    capture_requested,      \* register_face.py
    captured_frame,
    embedding_to_save,
    typed,                  \* what was typed at the name prompts of this run
    last_recognition_time,  \* main_auth.py
    current_time,
    analysed,               \* whether this iteration ran the analysis
    labels,                 \* labels drawn in this iteration, one per face
    recognized_names_in_frame

dbVars == <<store, added, conn, tx, stmts, peak, closes, call>>
loopVars == <<frame, face_results, key>>
regVars == <<capture_requested, captured_frame, embedding_to_save, typed>>
authVars == <<last_recognition_time, current_time, analysed, labels,
              recognized_names_in_frame>>
vars == <<store, added, prog, pc, conn, tx, stmts, peak, closes, call, op, frame, face_results, key,
          capture_requested, captured_frame, embedding_to_save, typed,
          last_recognition_time, current_time, analysed, labels,
          recognized_names_in_frame>>

NoCall == [fn |-> "none"]

(***************************************************************************)
(* database.py                                                             *)
(***************************************************************************)
\* psycopg: a statement on a connection whose transaction is in error fails
\* until rollback; fault is any other psycopg.Error of the statement
StatementFails(fault) == fault \/ tx = "inerror"

\* the faults a statement may meet
Faults == IF tx = "inerror" THEN {FALSE} ELSE BOOLEAN

\* cur.execute: one more statement in the current transaction
Executed(n) == IF n < MaxStmts THEN n + 1 ELSE MaxStmts

\* conn.commit() and conn.rollback() end the transaction
\* (variant: the transaction is left open)
EndTransactionMissing(n) == n

EndTransaction(n) == 0

\* conn.rollback() in an except clause: t is the status the error left
\* (variant: no rollback)
RollbackTxMissing(t) == t

RollbackTx(t) == "idle"

\* a step that executes no statement
NoStatement == stmts' = stmts /\ peak' = stmts

\* the three cur.execute of initialize_database
INITIALIZE_STATEMENTS == 3

\* initialize_database(conn): failedAt is the statement that raised
\* psycopg.Error, 0 when none did; the transaction ends with commit or
\* rollback; the most statements it held
InitializePeak(failedAt) ==
    LET n == IF failedAt = 0 THEN INITIALIZE_STATEMENTS ELSE failedAt
    IN IF n < MaxStmts THEN n ELSE MaxStmts

\* conn.close() at the place named site
\* (variant: the camera failure path of capture_and_register does not close)
AfterCloseSkipped(site, c, n) ==
    IF site = "RegCameraFailed" THEN [conn |-> c, closes |-> n]
    ELSE [conn |-> "closed", closes |-> n + 1]

AfterClose(site, c, n) == [conn |-> "closed", closes |-> n + 1]

\* the connection and the count of closes after conn.close() at site
Close(site) ==
    /\ conn' = AfterClose(site, "open", closes).conn
    /\ closes' = AfterClose(site, "open", closes).closes

\* SELECT name, embedding <=> %s AS distance FROM face_embeddings
RowsWithDistance(rows, e) ==
    [i \in DOMAIN rows |->
        [name |-> rows[i].name, distance |-> CosineDistance(rows[i].embedding, e)]]

\* ORDER BY distance ASC LIMIT 1: the ids the first row may have (rows of
\* equal distance come in no specified order)
\* (variant: ORDER BY distance DESC)
FirstRowsDesc(rows, e) ==
    LET r == RowsWithDistance(rows, e)
    IN {i \in DOMAIN r : \A j \in DOMAIN r : ~DistLT(r[i].distance, r[j].distance)}

FirstRows(rows, e) ==
    LET r == RowsWithDistance(rows, e)
    IN {i \in DOMAIN r : \A j \in DOMAIN r : ~DistLT(r[j].distance, r[i].distance)}

\* result['distance'] < DISTANCE_THRESHOLD
\* (variant: <=)
BelowThresholdLE(distance) == ~DistLT(DISTANCE_THRESHOLD, distance)

BelowThreshold(distance) == DistLT(distance, DISTANCE_THRESHOLD)

\* fetchone() returning None
NoRow == [none |-> TRUE]

\* the rows cur.fetchone() may return
FetchOne(rows, e) ==
    IF rows = <<>> THEN {NoRow}
    ELSE {RowsWithDistance(rows, e)[i] : i \in FirstRows(rows, e)}

\* the pair find_similar_face returns; result is the fetched row
\* (variant: a failure returns (None, None))
FindReturnNoInf(c, embedding_to_check, fails, result) ==
    IF c # "open" \/ embedding_to_check = NoEmbedding \/ fails \/ result = NoRow
    THEN [name |-> NoName, distance |-> DistNone]
    ELSE IF BelowThreshold(result.distance)
         THEN [name |-> result.name, distance |-> result.distance]
         ELSE [name |-> NoName, distance |-> result.distance]

FindReturn(c, embedding_to_check, fails, result) ==
    IF c # "open" THEN [name |-> NoName, distance |-> DistInf]
    ELSE IF embedding_to_check = NoEmbedding
         THEN [name |-> NoName, distance |-> DistInf]
    ELSE IF fails THEN [name |-> NoName, distance |-> DistInf]
    ELSE IF result # NoRow /\ result.distance # DistNone
            /\ BelowThreshold(result.distance)
         THEN [name |-> result.name, distance |-> result.distance]
    ELSE IF result # NoRow THEN [name |-> NoName, distance |-> result.distance]
    ELSE [name |-> NoName, distance |-> DistNone]

\* find_similar_face(conn, embedding_to_check); the returned pair is
\* (call'.name, call'.distance)
find_similar_face(embedding_to_check) ==
    \E fault \in Faults :
        LET executes == conn = "open" /\ embedding_to_check # NoEmbedding
            fails == StatementFails(fault)
        IN /\ \E result \in (IF executes /\ ~fails
                             THEN FetchOne(store, embedding_to_check)
                             ELSE {NoRow}) :
                 LET ret == FindReturn(conn, embedding_to_check, fails, result)
                 IN call' = [fn |-> "find_similar_face",
                             embedding |-> embedding_to_check,
                             executed |-> executes, failed |-> executes /\ fails,
                             name |-> ret.name, distance |-> ret.distance]
           \* no commit and no rollback on either path
           /\ tx' = IF ~executes THEN tx
                    ELSE IF fails THEN "inerror" ELSE "intrans"
           /\ stmts' = IF executes THEN Executed(stmts) ELSE stmts
           /\ peak' = stmts'
           /\ UNCHANGED <<store, added>>

\* INSERT INTO face_embeddings (name, embedding) VALUES (%s, %s)
\* (variant: a row of the same name is overwritten)
InsertRowUpsert(rows, name, embedding) ==
    IF \E i \in DOMAIN rows : rows[i].name = name
    THEN [i \in DOMAIN rows |->
            IF rows[i].name = name
            THEN [name |-> name, embedding |-> embedding] ELSE rows[i]]
    ELSE Append(rows, [name |-> name, embedding |-> embedding])

InsertRow(rows, name, embedding) ==
    Append(rows, [name |-> name, embedding |-> embedding])

\* add_face(conn, name, embedding); the returned boolean is call'.ret
add_face(name, embedding) ==
    \E fault \in Faults :
        LET executes == conn = "open" /\ embedding # NoEmbedding
            ret == executes /\ ~StatementFails(fault)
        IN /\ store' = IF ret THEN InsertRow(store, name, embedding) ELSE store
           /\ added' = IF ret THEN added \cup {[name |-> name, embedding |-> embedding]}
                       ELSE added
           \* commit on success, rollback on psycopg.Error
           /\ tx' = IF ~executes THEN tx
                    ELSE IF ret THEN "idle" ELSE RollbackTx("inerror")
           /\ stmts' = IF executes THEN EndTransaction(Executed(stmts)) ELSE stmts
           /\ peak' = IF executes THEN Executed(stmts) ELSE stmts
           /\ call' = [fn |-> "add_face", name |-> name, embedding |-> embedding,
                       executed |-> executes, failed |-> executes /\ ~ret,
                       ret |-> ret]

(***************************************************************************)
(* face_analyzer.py                                                        *)
(***************************************************************************)
\* FaceAnalyzer.analyze_frame(frame): raises says that app.get raised
analyze_frame(f, raises) ==
    IF f = NoFrame THEN <<>>
    ELSE IF raises THEN <<>>
    ELSE SelectSeq(f.faces, LAMBDA face : face.embedding # NoEmbedding)

\* max(face_results, key=lambda x: x['det_score']): the first of the
\* elements of greatest det_score
\* (variant: the first element)
FirstFace(results) == results[1]

BestFace(results) ==
    results[CHOOSE i \in DOMAIN results :
                /\ \A j \in DOMAIN results : results[j].det_score <= results[i].det_score
                /\ \A j \in 1..(i - 1) : results[j].det_score < results[i].det_score]

\* FaceAnalyzer.get_single_embedding(frame)
get_single_embedding(f, raises) ==
    LET results == analyze_frame(f, raises)
    IN IF results = <<>> THEN NoEmbedding ELSE BestFace(results).embedding

(***************************************************************************)
(* Python helpers                                                          *)
(***************************************************************************)
RECURSIVE LStrip(_)
LStrip(s) == IF s # <<>> /\ Head(s) = " " THEN LStrip(Tail(s)) ELSE s

RECURSIVE RStrip(_)
RStrip(s) ==
    IF s # <<>> /\ s[Len(s)] = " " THEN RStrip(SubSeq(s, 1, Len(s) - 1)) ELSE s

\* str.strip()
Strip(s) == RStrip(LStrip(s))

\* truth value of a name: None and "" are false
Truthy(name) == name # NoName /\ name # <<>>

(***************************************************************************)
(* The programs. One runs at a time; the table outlives them. The locals   *)
(* of a program keep their last values after it returned, until the next   *)
(* program starts.                                                         *)
(***************************************************************************)
\* the locals of a program at its start
FreshLocals ==
    /\ call' = NoCall
    /\ frame' = NoFrame
    /\ face_results' = <<>>
    /\ key' = "none"
    /\ capture_requested' = FALSE
    /\ captured_frame' = NoFrame
    /\ embedding_to_save' = NoEmbedding
    /\ typed' = <<>>
    /\ last_recognition_time' = 0
    /\ current_time' = 0
    /\ analysed' = FALSE
    /\ labels' = <<>>
    /\ recognized_names_in_frame' = {}

\* the function returns
Returned ==
    /\ prog' = "none"
    /\ pc' = "none"

(***************************************************************************)
(* database.py run as a program: connect, initialise, the example calls,   *)
(* close.                                                                  *)
(***************************************************************************)
\* get_db_connection() and initialize_database(conn)
DatabaseStart ==
    /\ prog = "none"
    /\ FreshLocals
    /\ tx' = "idle"
    /\ closes' = 0
    /\ UNCHANGED <<store, added>>
    /\ \E connected \in BOOLEAN :
          IF connected
          THEN \E failedAt \in 0..INITIALIZE_STATEMENTS :
                 /\ prog' = "database"
                 /\ conn' = "open"
                 /\ peak' = InitializePeak(failedAt)
                 /\ stmts' = EndTransaction(peak')
                 /\ pc' = IF failedAt = 0 THEN "calls" ELSE "close"
                 /\ op' = "DatabaseStart"
          ELSE /\ conn' = "none"
               /\ stmts' = 0
               /\ peak' = 0
               /\ op' = "DatabaseConnectFailed"
               /\ UNCHANGED <<prog, pc>>

DatabaseAddFace ==
    /\ prog = "database" /\ pc = "calls"
    /\ Len(store) < MaxRecords
    /\ \E name \in StoredNames, embedding \in Embeddings \cup {NoEmbedding} :
          add_face(name, embedding)
    /\ op' = "add_face"
    /\ UNCHANGED <<prog, pc, conn, closes, loopVars, regVars, authVars>>

DatabaseFindSimilarFace ==
    /\ prog = "database" /\ pc = "calls"
    /\ \E e \in Embeddings \cup {NoEmbedding} : find_similar_face(e)
    /\ op' = "find_similar_face"
    /\ UNCHANGED <<prog, pc, conn, closes, loopVars, regVars, authVars>>

\* add_face(None, name, embedding): a caller passes the None that
\* get_db_connection returned
AddFaceWithoutConnection ==
    /\ prog = "none" /\ conn = "none"
    /\ \E name \in StoredNames, embedding \in Embeddings \cup {NoEmbedding} :
          add_face(name, embedding)
    /\ op' = "AddFaceWithoutConnection"
    /\ UNCHANGED <<prog, pc, conn, closes, loopVars, regVars, authVars>>

DatabaseClose ==
    /\ prog = "database" /\ pc \in {"calls", "close"}
    /\ Close("DatabaseClose")
    /\ NoStatement
    /\ Returned
    /\ call' = NoCall
    /\ op' = "DatabaseClose"
    /\ UNCHANGED <<store, added, tx, loopVars, regVars, authVars>>

(***************************************************************************)
(* register_face.py: capture_and_register()                                *)
(***************************************************************************)
\* FaceAnalyzer(), get_db_connection(), initialize_database(conn),
\* cv2.VideoCapture(CAMERA_INDEX), and the locals set before the loop
RegStart ==
    /\ prog = "none"
    /\ FreshLocals
    /\ tx' = "idle"
    /\ UNCHANGED <<store, added>>
    /\ \E analyzer \in BOOLEAN, connected \in BOOLEAN :
          IF ~analyzer \/ ~connected
          THEN /\ op' = IF ~analyzer THEN "RegAnalyzerFailed" ELSE "RegConnectFailed"
               /\ conn' = "none"
               /\ closes' = 0
               /\ stmts' = 0
               /\ peak' = 0
               /\ UNCHANGED <<prog, pc>>
          ELSE \E failedAt \in 0..INITIALIZE_STATEMENTS, opened \in BOOLEAN :
                 /\ peak' = InitializePeak(failedAt)
                 /\ stmts' = EndTransaction(peak')
                 /\ IF failedAt # 0
                    THEN /\ op' = "RegInitializeFailed"
                         /\ conn' = AfterClose("RegInitializeFailed", "open", 0).conn
                         /\ closes' = AfterClose("RegInitializeFailed", "open", 0).closes
                         /\ UNCHANGED <<prog, pc>>
                    ELSE IF ~opened
                    THEN /\ op' = "RegCameraFailed"
                         /\ conn' = AfterClose("RegCameraFailed", "open", 0).conn
                         /\ closes' = AfterClose("RegCameraFailed", "open", 0).closes
                         /\ UNCHANGED <<prog, pc>>
                    ELSE /\ op' = "RegStart"
                         /\ prog' = "register"
                         /\ pc' = "loop"
                         /\ conn' = "open"
                         /\ closes' = 0

\* key == ord('q')
\* (variant: the capture key quits too)
QuitPressedOrCapture(k) == k \in {"q", "c"}

QuitPressed(k) == k = "q"

\* the frame handed to get_single_embedding when a capture is pending
\* (variant: the frame of the current iteration)
FrameToExtractCurrent(captured, current) == current

FrameToExtract(captured, current) == captured

\* the break after add_face leaves the name loop whatever add_face returned
\* (variant: a failed add_face prompts again)
PromptLoopEndsOnSuccess(saved) == saved

PromptLoopEnds(saved) == TRUE

\* key == ord('c') with the current face_results
\* (variant: no test of face_results)
CaptureAllowedAlways(results) == TRUE

CaptureAllowed(results) == results # <<>>

\* after the loop: cap.release(), then the name prompt if there is an
\* embedding to save, else "Registration cancelled or failed." and conn.close()
RegLeaveLoop(embedding, why) ==
    /\ op' = why
    /\ call' = NoCall
    /\ embedding_to_save' = embedding
    /\ NoStatement
    /\ UNCHANGED <<store, added, tx, typed, authVars, capture_requested, captured_frame>>
    /\ IF embedding # NoEmbedding
       THEN /\ pc' = "name"
            /\ UNCHANGED <<prog, conn, closes>>
       ELSE /\ Close(why)
            /\ Returned

\* one iteration of the frame loop
RegIteration ==
    /\ prog = "register" /\ pc = "loop"
    /\ \/ \* ret is False
          /\ RegLeaveLoop(embedding_to_save, "RegReadFailed")
          /\ frame' = NoFrame
          /\ UNCHANGED <<face_results, key>>
       \/ \E f \in Frames, raises \in BOOLEAN :
            LET results == analyze_frame(f, raises)
                attempt == results # <<>> /\ capture_requested
            IN \E raises2 \in (IF attempt THEN BOOLEAN ELSE {FALSE}) :
                 LET embedding == IF attempt
                                  THEN get_single_embedding(
                                           FrameToExtract(captured_frame, f), raises2)
                                  ELSE embedding_to_save
                     requested == IF attempt THEN FALSE ELSE capture_requested
                 IN /\ frame' = f
                    /\ face_results' = results
                    /\ IF attempt /\ embedding # NoEmbedding
                       THEN /\ RegLeaveLoop(embedding, "RegCaptured")
                            /\ key' = key
                       ELSE \E k \in Keys :
                              /\ key' = k
                              /\ IF QuitPressed(k)
                                 THEN RegLeaveLoop(NoEmbedding, "RegQuit")
                                 ELSE /\ op' = "RegIteration"
                                      /\ embedding_to_save' = embedding
                                      /\ IF k = "c" /\ CaptureAllowed(results)
                                         THEN /\ captured_frame' = f
                                              /\ capture_requested' = TRUE
                                         ELSE /\ captured_frame' = captured_frame
                                              /\ capture_requested' = requested
                                      /\ call' = NoCall
                                      /\ NoStatement
                                      /\ UNCHANGED <<store, added, prog, pc, conn, tx,
                                                     closes, typed, authVars>>

\* input(...).strip()
PromptedName(line) == Strip(line)

\* if name: the name is accepted
\* (variant: no test of the name)
NameAcceptedAlways(name) == TRUE

NameAccepted(name) == name # <<>>

\* one round of the name prompt; an accepted name is saved with add_face,
\* and the function goes on to conn.close()
RegPrompt ==
    /\ prog = "register" /\ pc = "name"
    /\ Len(typed) < MaxPrompts
    /\ \E line \in TypedNames :
          LET name == PromptedName(line)
          IN /\ typed' = Append(typed, line)
             /\ UNCHANGED <<loopVars, capture_requested, captured_frame,
                            embedding_to_save, authVars>>
             /\ IF NameAccepted(name)
                THEN /\ Len(store) < MaxRecords
                     /\ add_face(name, embedding_to_save)
                     /\ op' = "RegAddFace"
                     /\ IF PromptLoopEnds(call'.ret)
                        THEN /\ Close("RegAddFace")
                             /\ Returned
                        ELSE UNCHANGED <<prog, pc, conn, closes>>
                ELSE /\ op' = "RegPrompt"
                     /\ call' = NoCall
                     /\ NoStatement
                     /\ UNCHANGED <<store, added, prog, pc, conn, tx, closes>>

(***************************************************************************)
(* main_auth.py: run_authentication(). Times are in ticks of a quarter of  *)
(* a second, counted from the start of the run.                            *)
(***************************************************************************)
\* RECOGNITION_INTERVAL_SECONDS = 0.5
RECOGNITION_INTERVAL_TICKS == 2

\* FaceAnalyzer(), get_db_connection(), initialize_database(conn) (a failure
\* is only warned about), cv2.VideoCapture(CAMERA_INDEX),
\* last_recognition_time = time.time()
AuthStart ==
    /\ prog = "none"
    /\ FreshLocals
    /\ tx' = "idle"
    /\ UNCHANGED <<store, added>>
    /\ \E analyzer \in BOOLEAN, connected \in BOOLEAN :
          IF ~analyzer \/ ~connected
          THEN /\ op' = IF ~analyzer THEN "AuthAnalyzerFailed" ELSE "AuthConnectFailed"
               /\ conn' = "none"
               /\ closes' = 0
               /\ stmts' = 0
               /\ peak' = 0
               /\ UNCHANGED <<prog, pc>>
          ELSE \E failedAt \in 0..INITIALIZE_STATEMENTS, opened \in BOOLEAN :
                 /\ peak' = InitializePeak(failedAt)
                 /\ stmts' = EndTransaction(peak')
                 /\ IF ~opened
                    THEN /\ op' = "AuthCameraFailed"
                         /\ conn' = AfterClose("AuthCameraFailed", "open", 0).conn
                         /\ closes' = AfterClose("AuthCameraFailed", "open", 0).closes
                         /\ UNCHANGED <<prog, pc>>
                    ELSE /\ op' = "AuthStart"
                         /\ prog' = "auth"
                         /\ pc' = "read"
                         /\ conn' = "open"
                         /\ closes' = 0

\* current_time - last_recognition_time >= RECOGNITION_INTERVAL_SECONDS
\* (variant: every frame is analysed)
AnalysisDueAlways(now, last) == TRUE

AnalysisDue(now, last) == now - last >= RECOGNITION_INTERVAL_TICKS

\* cleanup after the loop: cap.release(), conn.close()
AuthLeaveLoop(why) ==
    /\ op' = why
    /\ Close(why)
    /\ NoStatement
    /\ Returned
    /\ call' = NoCall
    /\ UNCHANGED <<store, added, tx, regVars>>

\* the head of an iteration: cap.read(), time.time(), and, when due,
\* analyze_frame(frame)
AuthReadFrame ==
    /\ prog = "auth" /\ pc = "read"
    /\ \/ \* ret is False
          /\ AuthLeaveLoop("AuthReadFailed")
          /\ frame' = NoFrame
          /\ UNCHANGED <<face_results, key, authVars>>
       \/ \E f \in Frames, now \in current_time..MaxTime :
            /\ op' = "AuthReadFrame"
            /\ frame' = f
            /\ current_time' = now
            /\ recognized_names_in_frame' = {}
            /\ labels' = <<>>
            /\ call' = NoCall
            /\ NoStatement
            /\ UNCHANGED <<store, added, prog, conn, tx, closes, key, regVars>>
            /\ IF AnalysisDue(now, last_recognition_time)
               THEN /\ last_recognition_time' = now
                    /\ analysed' = TRUE
                    /\ \E raises \in BOOLEAN :
                          face_results' = analyze_frame(f, raises)
                    /\ pc' = IF face_results' = <<>> THEN "show" ELSE "lookup"
               ELSE /\ analysed' = FALSE
                    /\ pc' = "show"
                    /\ UNCHANGED <<last_recognition_time, face_results>>

Unknown == [text |-> "Unknown", name |-> NoName, distance |-> DistNone]

\* the label drawn for a face from what find_similar_face returned
\* (variant: no test of the name)
LabelNamed(name, distance) == [text |-> "name", name |-> name, distance |-> distance]

Label(name, distance) ==
    IF Truthy(name)
    THEN [text |-> "name", name |-> name, distance |-> distance]
    ELSE Unknown

\* the body of "for face in face_results" for the next face
AuthLookup ==
    /\ prog = "auth" /\ pc = "lookup"
    /\ LET i == Len(labels) + 1
       IN /\ find_similar_face(face_results[i].embedding)
          /\ labels' = Append(labels, Label(call'.name, call'.distance))
          \* print AUTHENTICATED once per name and frame
          /\ recognized_names_in_frame' =
                IF Truthy(call'.name)
                THEN recognized_names_in_frame \cup {call'.name}
                ELSE recognized_names_in_frame
          /\ pc' = IF i = Len(face_results) THEN "show" ELSE "lookup"
    /\ op' = "AuthLookup"
    /\ UNCHANGED <<prog, conn, closes, loopVars, regVars, last_recognition_time,
                   current_time, analysed>>

\* cv2.imshow and the key
AuthShow ==
    /\ prog = "auth" /\ pc = "show"
    /\ \E k \in AuthKeys :
          /\ key' = k
          /\ UNCHANGED <<frame, face_results, authVars>>
          /\ IF QuitPressed(k)
             THEN AuthLeaveLoop("AuthQuit")
             ELSE /\ op' = "AuthShow"
                  /\ pc' = "read"
                  /\ call' = NoCall
                  /\ NoStatement
                  /\ UNCHANGED <<store, added, prog, conn, tx, closes, regVars>>

Init ==
    /\ store = <<>>
    /\ added = {}
    /\ prog = "none"
    /\ pc = "none"
    /\ conn = "none"
    /\ tx = "idle"
    /\ stmts = 0
    /\ peak = 0
    /\ closes = 0
    /\ call = NoCall
    /\ op = "Init"
    /\ frame = NoFrame
    /\ face_results = <<>>
    /\ key = "none"
    /\ capture_requested = FALSE
    /\ captured_frame = NoFrame
    /\ embedding_to_save = NoEmbedding
    /\ typed = <<>>
    /\ last_recognition_time = 0
    /\ current_time = 0
    /\ analysed = FALSE
    /\ labels = <<>>
    /\ recognized_names_in_frame = {}

Next ==
    \/ DatabaseStart
    \/ DatabaseAddFace
    \/ DatabaseFindSimilarFace
    \/ AddFaceWithoutConnection
    \/ DatabaseClose
    \/ RegStart
    \/ RegIteration
    \/ RegPrompt
    \/ AuthStart
    \/ AuthReadFrame
    \/ AuthLookup
    \/ AuthShow

Spec == Init /\ [][Next]_vars

(***************************************************************************)
(* Properties.                                                             *)
(***************************************************************************)
\* the last step called find_similar_face and its query ran without error
FindExecuted == call.fn = "find_similar_face" /\ call.executed /\ ~call.failed

\* distance of row i of the table to the embedding of the last call
RowDistance(i) == CosineDistance(store[i].embedding, call.embedding)

\* row i is at the least distance of all rows
RowNearest(i) == \A j \in DOMAIN store : ~DistLT(RowDistance(j), RowDistance(i))

RowBelow(i) == DistLT(RowDistance(i), DISTANCE_THRESHOLD)

\* C1 as stated: whenever a stored record r is below DISTANCE_THRESHOLD from
\* the query, find_similar_face on a working connection returns r's name and
\* a distance below the threshold.
C1_AnyRecordBelowThresholdIsReturned ==
    FindExecuted =>
        \A i \in DOMAIN store :
            RowBelow(i) =>
                /\ call.name = store[i].name
                /\ call.distance.kind = "num"
                /\ DistLT(call.distance, DISTANCE_THRESHOLD)

\* C1 amended: whenever some stored record is below DISTANCE_THRESHOLD from
\* the query, find_similar_face on a working connection returns the name and
\* the distance of a record at the least distance from the query, and that
\* distance is below the threshold.
C1_NearestRecordBelowThresholdIsReturned ==
    (FindExecuted /\ \E i \in DOMAIN store : RowBelow(i)) =>
        /\ \E k \in DOMAIN store :
              /\ RowNearest(k)
              /\ call.name = store[k].name
              /\ call.distance = RowDistance(k)
        /\ call.distance.kind = "num"
        /\ DistLT(call.distance, DISTANCE_THRESHOLD)

\* C1 witness: two records of different names are both below the threshold,
\* at different distances, and the nearer one's name is returned.
C1_Witness ==
    /\ FindExecuted
    /\ \E i, k \in DOMAIN store :
          /\ RowBelow(i) /\ RowBelow(k)
          /\ DistLT(RowDistance(k), RowDistance(i))
          /\ store[i].name # store[k].name
          /\ call.name = store[k].name

AllUnknown ==
    /\ \A i \in DOMAIN labels : labels[i] = Unknown
    /\ recognized_names_in_frame = {}

\* C3 as stated: with no records in the store, find_similar_face returns
\* (None, None) for every query, and the recognition loop labels every face
\* Unknown and prints no AUTHENTICATED.
C3_EmptyStoreReturnsNoneNone ==
    store = <<>> =>
        /\ call.fn = "find_similar_face" =>
              call.name = NoName /\ call.distance = DistNone
        /\ AllUnknown

\* C3 amended: with no records in the store, find_similar_face returns name
\* None for every query, with distance None when the query ran and infinity
\* when it failed or was not issued, and the recognition loop labels every
\* face Unknown and prints no AUTHENTICATED.
C3_EmptyStoreNoMatch ==
    store = <<>> =>
        /\ call.fn = "find_similar_face" =>
              /\ call.name = NoName
              /\ call.distance = IF call.executed /\ ~call.failed
                                 THEN DistNone ELSE DistInf
        /\ AllUnknown

\* C3 witness: the recognition loop has looked up both faces of a frame in
\* the empty store, the last query ran and returned (None, None).
C3_Witness ==
    /\ store = <<>>
    /\ prog = "auth"
    /\ Len(labels) = 2
    /\ FindExecuted
    /\ call.distance = DistNone

\* C4 as stated: once add_face(conn, name, e) returned True, whatever was
\* added since, find_similar_face(conn, e) on a working connection returns
\* that name with distance 0.
C4_RoundTripSameName ==
    FindExecuted =>
        \A r \in added :
            r.embedding = call.embedding =>
                call.name = r.name /\ DistEq(call.distance, DistZero)

\* C4 amended: once add_face(conn, name, e) returned True, whatever was
\* added since, find_similar_face(conn, e) on a working connection returns
\* distance 0 and the name of a pair added with an embedding at distance 0
\* from e (that same name, unless another name was added so).
C4_RoundTripDistanceZero ==
    (FindExecuted /\ \E r \in added : r.embedding = call.embedding) =>
        /\ call.distance.kind = "num"
        /\ DistEq(call.distance, DistZero)
        /\ \E r \in added :
              /\ r.name = call.name
              /\ DistEq(CosineDistance(r.embedding, call.embedding), DistZero)

\* C4 witness: a pair was added, another pair was added after it, and the
\* query with the first pair's embedding returns its name at distance 0.
C4_Witness ==
    /\ FindExecuted
    /\ Len(store) = 2
    /\ store[1].embedding = call.embedding
    /\ store[2].embedding # call.embedding
    /\ call.name = store[1].name
    /\ DistEq(call.distance, DistZero)

\* C8: the store is append-only. No step changes or removes a row; a step
\* changes the table only by add_face returning True, which appends exactly
\* the one new row, also when its name is already stored;
\* find_similar_face and every step of the recognition flow leave the table
\* as it is.
C8_AppendOnly ==
    [][ /\ \/ store' = store
           \/ /\ call'.fn = "add_face" /\ call'.ret
              /\ store' = Append(store, [name |-> call'.name,
                                         embedding |-> call'.embedding])
        /\ (call'.fn = "add_face" /\ call'.ret) =>
              /\ Len(store') = Len(store) + 1
              /\ SubSeq(store', 1, Len(store)) = store
        /\ (call'.fn = "add_face" /\ ~call'.ret) => store' = store
        /\ (call'.fn = "find_similar_face" \/ prog = "auth" \/ prog' = "auth") =>
              store' = store
      ]_vars

\* C8 witness: add_face has just returned True for a name that was already
\* stored, and both rows are there.
C8_Witness ==
    /\ call.fn = "add_face" /\ call.ret
    /\ Len(store) = 2
    /\ store[1].name = store[2].name
    /\ store[1].embedding # store[2].embedding

\* a typed line that is empty once its whitespace is stripped
IsBlank(line) == \A i \in DOMAIN line : line[i] = " "

\* C5: the registration flow never calls add_face with an empty name. Every
\* typed line that is empty after stripping is rejected and the prompt
\* repeats; add_face is called once, with the stripped form of the first line
\* that is not.
C5_NoEmptyNameRegistered ==
    /\ (prog = "register" /\ pc = "name") =>
          /\ call.fn = "none"
          /\ \A i \in DOMAIN typed : IsBlank(typed[i])
    /\ (prog = "register" /\ pc = "loop") => typed = <<>>
    /\ op = "RegAddFace" =>
          /\ call.fn = "add_face"
          /\ call.name # <<>>
          /\ typed # <<>>
          /\ ~IsBlank(typed[Len(typed)])
          /\ \A i \in 1..(Len(typed) - 1) : IsBlank(typed[i])
          /\ call.name = Strip(typed[Len(typed)])
          /\ call.name[1] # " " /\ call.name[Len(call.name)] # " "
          /\ call.ret => store[Len(store)].name = call.name

\* C5 witness: a blank line was rejected, then a line with spaces around a
\* name was typed and the record was inserted under the stripped name.
C5_Witness ==
    /\ op = "RegAddFace"
    /\ call.ret
    /\ Len(typed) = 2
    /\ typed[1] = <<" ", " ">>
    /\ typed[2] = <<" ", "b", " ">>
    /\ store[Len(store)].name = <<"b">>

\* the frame has a face that analyze_frame reports
HasDetectedFace(f) == f # NoFrame /\ analyze_frame(f, FALSE) # <<>>

\* C6: in the registration loop the capture key is rejected on an iteration
\* whose frame yielded no detected face: capture_requested and
\* captured_frame stay as they are. So whenever capture_requested is true,
\* captured_frame is a frame with a detected face, and a record is only
\* persisted from such a frame.
C6_CaptureNeedsDetectedFace ==
    /\ [](capture_requested => HasDetectedFace(captured_frame))
    /\ [](op = "RegAddFace" =>
            /\ HasDetectedFace(captured_frame)
            /\ \E i \in DOMAIN captured_frame.faces :
                  captured_frame.faces[i].embedding = call.embedding)
    /\ [][(op' = "RegIteration" /\ key' = "c" /\ face_results' = <<>>) =>
            UNCHANGED <<capture_requested, captured_frame>>]_vars

\* C6 witness: with a capture request pending, the capture key was pressed on
\* a frame with no detected face, and the request and the captured frame are
\* the earlier ones.
C6_Witness ==
    /\ prog = "register" /\ op = "RegIteration"
    /\ key = "c"
    /\ face_results = <<>>
    /\ capture_requested
    /\ captured_frame # frame

\* C7 as stated: the registration flow calls add_face only when the captured
\* frame has exactly one detected face.
C7_ExactlyOneFace ==
    op = "RegAddFace" => Len(analyze_frame(captured_frame, FALSE)) = 1

\* C7 amended: the registration flow calls add_face only when the captured
\* frame has at least one detected face, and with the embedding of the first
\* face of the highest det_score of that frame; a captured frame with two or
\* more faces does lead to an add_face call.
C7_AtLeastOneFaceBestIsSaved ==
    op = "RegAddFace" =>
        LET r == analyze_frame(captured_frame, FALSE)
        IN /\ Len(r) >= 1
           /\ call.fn = "add_face"
           /\ \E i \in DOMAIN r :
                 /\ r[i].embedding = call.embedding
                 /\ \A j \in DOMAIN r : r[j].det_score <= r[i].det_score
                 /\ \A j \in 1..(i - 1) : r[j].det_score < r[i].det_score

\* C7 witness: a record was inserted from a captured frame with two faces,
\* the second of which has the higher det_score.
C7_Witness ==
    /\ op = "RegAddFace"
    /\ call.ret
    /\ Len(captured_frame.faces) = 2
    /\ captured_frame.faces[1].det_score < captured_frame.faces[2].det_score
    /\ call.embedding = captured_frame.faces[2].embedding

\* C9: the recognition loop analyses a frame only when at least
\* RECOGNITION_INTERVAL_SECONDS have passed since the previous analysis (or
\* the start of the loop), so consecutive analyses are an interval apart; an
\* iteration that does not analyse extracts nothing and queries nothing; an
\* iteration that does issues one lookup per detected face.
C9_RecognitionThrottled ==
    /\ [][(op' = "AuthReadFrame" /\ analysed') =>
            /\ current_time' - last_recognition_time >= RECOGNITION_INTERVAL_TICKS
            /\ last_recognition_time' = current_time']_vars
    /\ [][(op' = "AuthReadFrame" /\ ~analysed') =>
            /\ current_time' - last_recognition_time < RECOGNITION_INTERVAL_TICKS
            /\ UNCHANGED <<face_results, last_recognition_time>>
            /\ pc' = "show" /\ labels' = <<>> /\ call' = NoCall]_vars
    /\ [][call'.fn = "find_similar_face" /\ prog = "auth" =>
            /\ analysed /\ analysed'
            /\ Len(labels') = Len(labels) + 1
            /\ Len(labels') <= Len(face_results)
            /\ call'.embedding = face_results[Len(labels')].embedding]_vars
    /\ []((prog = "auth" /\ ~analysed) => (pc # "lookup" /\ labels = <<>>))
    /\ []((prog = "auth" /\ analysed /\ pc = "show") =>
            Len(labels) = Len(face_results))
    /\ []((prog = "auth" /\ pc = "lookup") => Len(labels) < Len(face_results))

\* C9 witness: an analysis ran two intervals after the start of the loop, and
\* both faces of its frame were looked up.
C9_Witness ==
    /\ prog = "auth" /\ pc = "show"
    /\ analysed
    /\ last_recognition_time = 2 * RECOGNITION_INTERVAL_TICKS
    /\ Len(face_results) = 2
    /\ Len(labels) = 2

\* C10: a failed query in the recognition loop degrades to no match:
\* find_similar_face returns (None, infinity), the face is labelled Unknown,
\* and the loop goes on with the remaining faces and the next frames.
C10_FailedQueryIsNoMatch ==
    /\ (call.fn = "find_similar_face" /\ (call.failed \/ ~call.executed)) =>
          call.name = NoName /\ call.distance = DistInf
    /\ (op = "AuthLookup" /\ call.failed) =>
          /\ prog = "auth"
          /\ conn = "open"
          /\ labels # <<>>
          /\ labels[Len(labels)] = Unknown
          /\ call.name \notin recognized_names_in_frame
          /\ IF Len(labels) < Len(face_results)
             THEN pc = "lookup" /\ ENABLED AuthLookup
             ELSE pc = "show" /\ ENABLED AuthShow
    /\ (prog = "auth" /\ pc = "show") => ENABLED AuthShow
    /\ (prog = "auth" /\ pc = "read") => ENABLED AuthReadFrame

\* C10 witness: the query for the first of two faces failed; the face is
\* labelled Unknown and the second face is next.
C10_Witness ==
    /\ op = "AuthLookup"
    /\ call.failed
    /\ Len(face_results) = 2
    /\ Len(labels) = 1
    /\ labels[1] = Unknown
    /\ pc = "lookup"

\* the function is inside its frame loop
InLoop == prog \in {"register", "auth"} /\ pc \in {"loop", "read", "lookup", "show"}

\* the ways a start of capture_and_register or run_authentication returns
\* before the frame loop
StartupFailures ==
    {"RegAnalyzerFailed", "RegConnectFailed", "RegInitializeFailed",
     "RegCameraFailed", "AuthAnalyzerFailed", "AuthConnectFailed",
     "AuthCameraFailed"}

\* C11 as stated: the only failures that end the process are a camera or a
\* database that cannot be opened at startup, and once the frame loop is
\* running only the quit key or, in registration, a successful capture
\* ends it.
C11_OnlyCameraOrDatabaseAndQuitOrCapture ==
    /\ [][op' \in StartupFailures =>
             op' \in {"RegConnectFailed", "RegInitializeFailed", "RegCameraFailed",
                      "AuthConnectFailed", "AuthCameraFailed"}]_vars
    /\ [][(InLoop /\ ~InLoop') => op' \in {"RegQuit", "AuthQuit", "RegCaptured"}]_vars

\* C11 amended: a start that fails (analyzer, connection, in registration
\* initialize_database, camera) returns without entering the frame loop,
\* without calling add_face or find_similar_face and without writing to the
\* store; the frame loop is left only by a frame-read failure, by the quit
\* key (the key read is 'q') or, in registration, by a capture that yielded
\* an embedding; a step of the loop that ran a database query, failed or not,
\* stays in the loop.
C11_LoopEndsOnReadFailureQuitOrCapture ==
    /\ [][op' \in StartupFailures =>
             /\ prog = "none" /\ prog' = "none"
             /\ call' = NoCall
             /\ store' = store]_vars
    /\ [][(InLoop /\ ~InLoop') =>
             /\ op' \in {"RegReadFailed", "AuthReadFailed", "RegQuit", "AuthQuit",
                         "RegCaptured"}
             /\ op' \in {"RegQuit", "AuthQuit"} => key' = "q"
             /\ op' = "RegCaptured" =>
                   prog' = "register" /\ pc' = "name"
                   /\ embedding_to_save' # NoEmbedding]_vars
    /\ [][(InLoop /\ call'.fn # "none") => InLoop']_vars

\* C11 witness: a recognition run whose query failed went on with the loop
\* and was ended later by a frame-read failure.
C11_Witness ==
    /\ op = "AuthReadFailed"
    /\ prog = "none"
    /\ tx = "inerror"
    /\ conn = "closed"

\* C12 as stated: at every point of initialize_database, add_face,
\* find_similar_face and of the flows that call them, at most one statement
\* has been executed since the last commit or rollback.
C12_AtMostOneStatementPerTransaction == peak <= 1 /\ stmts <= 1

\* C12 amended: initialize_database and an add_face that executed its INSERT
\* end their transaction, so no statement is pending after them, and in the
\* registration flow after initialize_database no transaction holds more
\* than one statement; find_similar_face that executed its SELECT leaves a
\* transaction open with one more statement in it, and no step of the
\* recognition flow ends a transaction.
C12_OnlyAddFaceAndInitializeEndTransactions ==
    /\ [](op \in {"DatabaseStart", "RegStart", "AuthStart"} \cup StartupFailures
              => stmts = 0)
    /\ []((call.fn = "add_face" /\ call.executed) => (stmts = 0 /\ tx = "idle"))
    /\ []((prog = "register" /\ op # "RegStart") => (stmts = 0 /\ peak = 0))
    /\ [](op = "RegAddFace" => peak <= 1)
    /\ [][(call'.fn = "find_similar_face" /\ call'.executed) =>
             /\ stmts' = Executed(stmts)
             /\ stmts' >= 1
             /\ tx' # "idle"]_vars
    /\ [][(prog = "auth" /\ op' # "AuthStart") =>
             /\ stmts' >= stmts
             /\ (tx # "idle" => tx' # "idle")]_vars

\* C12 witness: a recognition run has executed more than one query in the
\* transaction that is still open.
C12_Witness ==
    /\ prog = "auth"
    /\ op = "AuthLookup"
    /\ call.executed
    /\ stmts >= 2
    /\ tx = "intrans"

\* the embedding of the first face of greatest det_score that a clean
\* analysis of frame f reports
BestEmbedding(f) == get_single_embedding(f, FALSE)

\* C13: the embedding persisted by registration is that of the highest
\* det_score face of the frame that was current when the capture key was
\* pressed: the key stores that frame; the extraction from the stored frame
\* happens only on a later iteration whose own frame has a detected face;
\* over iterations with no detected face the request and the stored frame
\* stay; a failed extraction resets the request and leaves nothing to save,
\* and a request made again stores the frame of that iteration; while the
\* loop runs there is nothing to save.
C13_PersistedEmbeddingIsOfCapturedFrame ==
    /\ [][(op' = "RegIteration" /\ capture_requested' /\
             (~capture_requested \/ face_results' # <<>>)) =>
             /\ key' = "c"
             /\ captured_frame' = frame']_vars
    /\ [][op' = "RegCaptured" =>
             /\ capture_requested
             /\ face_results' # <<>>
             /\ captured_frame' = captured_frame
             /\ embedding_to_save' = BestEmbedding(captured_frame)]_vars
    /\ [][(prog = "register" /\ pc = "loop" /\ capture_requested /\
             op' = "RegIteration" /\ face_results' = <<>>) =>
             /\ capture_requested'
             /\ captured_frame' = captured_frame]_vars
    /\ [][(prog = "register" /\ pc = "loop" /\ capture_requested /\
             op' = "RegIteration" /\ face_results' # <<>> /\ key' # "c") =>
             ~capture_requested']_vars
    /\ []((prog = "register" /\ pc = "loop") => embedding_to_save = NoEmbedding)
    /\ [](op = "RegAddFace" =>
             /\ call.fn = "add_face"
             /\ call.embedding = BestEmbedding(captured_frame))

\* C13 witness: a record was persisted on an iteration whose own frame shows
\* another best face than the captured frame; the record has the embedding of
\* the captured frame's best face.
C13_Witness ==
    /\ op = "RegAddFace"
    /\ call.ret
    /\ frame # captured_frame
    /\ BestEmbedding(frame) # BestEmbedding(captured_frame)
    /\ store[Len(store)].embedding = BestEmbedding(captured_frame)

\* the next call of the database.py program is a find_similar_face whose
\* query runs without error
FindSucceeds == DatabaseFindSimilarFace /\ call'.executed /\ ~call'.failed

\* the next call of the database.py program is an add_face that returns True
AddSucceeds == DatabaseAddFace /\ call'.ret

\* C14: add_face with an invalid embedding or with no connection returns
\* False without executing a statement: the store, the transaction status and
\* the count of pending statements are as before the call. add_face whose
\* INSERT raises a database error returns False with the store as before the
\* call and the transaction rolled back, so that the next find_similar_face
\* and the next add_face on the connection can succeed.
C14_FailedAddFaceChangesNothing ==
    /\ [][(call'.fn = "add_face" /\ (conn # "open" \/ call'.embedding = NoEmbedding)) =>
             /\ ~call'.executed
             /\ ~call'.ret
             /\ UNCHANGED <<store, added, tx, stmts>>]_vars
    /\ [][(call'.fn = "add_face" /\ call'.failed) =>
             /\ call'.executed
             /\ ~call'.ret
             /\ UNCHANGED <<store, added>>
             /\ tx' = "idle"
             /\ stmts' = 0]_vars
    /\ [][(call'.fn = "add_face" /\ ~call'.ret) =>
             (call'.failed \/ ~call'.executed)]_vars
    /\ []((prog = "database" /\ pc = "calls" /\ call.fn = "add_face" /\ call.failed) =>
             /\ ENABLED FindSucceeds
             /\ (Len(store) < MaxRecords => ENABLED AddSucceeds))

\* C14 witness: on a store with a record, and in a transaction that an
\* earlier query had left open, an INSERT raised a database error; add_face
\* returned False and the transaction is rolled back.
C14_Witness ==
    /\ prog = "database"
    /\ op = "add_face"
    /\ call.failed /\ ~call.ret
    /\ store # <<>>
    /\ tx = "idle"
    /\ peak >= 2

\* C15: a step of capture_and_register that calls add_face is its last one,
\* whatever add_face returned, so a run calls add_face at most once; no step
\* of the frame loop calls it; and when the loop ends by the quit key or by a
\* frame-read failure the run returns without calling it, with nothing to
\* save and the store as it was, a pending capture request included.
C15_AddFaceAtMostOncePerRun ==
    /\ [][(prog = "register" /\ call'.fn = "add_face") =>
             /\ pc = "name"
             /\ op' = "RegAddFace"
             /\ prog' = "none"]_vars
    /\ [][(prog = "register" /\ pc = "loop") => call' = NoCall]_vars
    /\ [][op' \in {"RegQuit", "RegReadFailed"} =>
             /\ prog = "register" /\ prog' = "none"
             /\ call' = NoCall
             /\ embedding_to_save' = NoEmbedding
             /\ UNCHANGED <<store, added>>]_vars

\* C15 witness: the quit key ended the loop while a capture request was
\* pending, and the run returned.
C15_Witness ==
    /\ op = "RegQuit"
    /\ prog = "none"
    /\ capture_requested
    /\ HasDetectedFace(captured_frame)
    /\ call = NoCall

\* the ways capture_and_register and run_authentication return after
\* get_db_connection returned a connection
ReturnsWithConnection ==
    {"RegInitializeFailed", "RegCameraFailed", "RegReadFailed", "RegQuit",
     "RegAddFace", "AuthCameraFailed", "AuthReadFailed", "AuthQuit"}

\* C16: while capture_and_register or run_authentication runs past its
\* startup the connection is open and was never closed; on every return after
\* get_db_connection returned a connection (initialisation failure, camera
\* failure, frame-read failure, quit key, add_face called) the connection is
\* closed and conn.close() was called once in the run; add_face and
\* find_similar_face are called by these functions only before the close,
\* and nothing is called on a closed connection.
C16_ConnectionClosedExactlyOnce ==
    /\ [](prog \in {"register", "auth"} => (conn = "open" /\ closes = 0))
    /\ []((prog = "none" /\ op \in ReturnsWithConnection) =>
             (conn = "closed" /\ closes = 1))
    /\ [][(prog \in {"register", "auth"} /\ prog' = "none") =>
             /\ op' \in ReturnsWithConnection
             /\ conn' = "closed"
             /\ closes' = closes + 1]_vars
    /\ [][(prog \in {"register", "auth"} /\ call'.fn # "none") =>
             (conn = "open" /\ closes = 0)]_vars
    /\ [][conn = "closed" => call' = NoCall]_vars

\* C16 witness: a registration called add_face, which failed, and returned
\* with the connection closed once.
C16_Witness ==
    /\ op = "RegAddFace"
    /\ prog = "none"
    /\ call.fn = "add_face" /\ call.executed /\ ~call.ret
    /\ conn = "closed"
    /\ closes = 1

====
